---- MODULE Spec2Model ----
(***************************************************************************)
(* A model of src/main.go (the depth-tracking variant, lines 137-316):     *)
(* main lists the volumes directory and calls analyzeFiles(volume, 1) on   *)
(* every tenant directory; analyzeFiles walks the tree with filepath.Walk, *)
(* tallies extensions, evaluates .js/.py content with checkFlags, then     *)
(* re-invokes itself on the directory of every flagged file.               *)
(*                                                                         *)
(* Strings are sequences of Unicode code points (file names, extensions,   *)
(* contents); a path is the sequence of its components below the volumes   *)
(* directory, so <<t1, a, x.js>> is /var/lib/pterodactyl/volumes/t1/a/x.js.*)
(* Percentages are exact rationals kept as integers scaled by Scale (the   *)
(* code uses float64; rounding error is not modelled).                     *)
(***************************************************************************)
EXTENDS Integers, Sequences, FiniteSets, TLC

VARIABLES fs, volumes, mainPc, volIdx, stack, ret, flaggedFolders, out

vars == <<fs, volumes, mainPc, volIdx, stack, ret, flaggedFolders, out>>

(***************************************************************************)
(* Bounds of the model.                                                    *)
(***************************************************************************)
\* Directory levels below the tenant root in the modelled tenant tree.
MaxLevels == 4
\* Directories of the tenant tree that hold the flagged file x.js.
MaxChainFiles == 3
\* Directory levels below the tenant root in a tenant tree that holds an
\* extra (a file other than x.js, a directory with a special name, an
\* unreadable directory).
MaxExtraLevels == 1

(***************************************************************************)
(* Program constants.                                                      *)
(***************************************************************************)
maxFileSize == 1024 * 1024 * 10
maxDepth == 3

(***************************************************************************)
(* Generic helpers on functions and sequences.                             *)
(***************************************************************************)
EmptyMap == [x \in {} |-> 0]

Put(f, k, v) == [x \in (DOMAIN f) \cup {k} |-> IF x = k THEN v ELSE f[x]]

RECURSIVE SumOver(_, _)
SumOver(f, S) ==
    IF S = {} THEN 0
    ELSE LET k == CHOOSE x \in S : TRUE
         IN  f[k] + SumOver(f, S \ {k})

SumMap(f) == SumOver(f, DOMAIN f)

RECURSIVE Gcd(_, _)
Gcd(a, b) == IF b = 0 THEN a ELSE Gcd(b, a % b)

RECURSIVE LcmUpTo(_)
LcmUpTo(n) == IF n <= 1 THEN 1
              ELSE LET l == LcmUpTo(n - 1) IN (l * n) \div Gcd(l, n)

\* The largest number of regular files one walk can count in the modelled
\* trees: the chain files and one extra file.
MaxTally == MaxChainFiles + 1

\* Every total a walk can reach divides Scale, so count * 100 * Scale / total
\* is an integer and carries the exact value of count / total * 100.
Scale == LcmUpTo(MaxTally)

(***************************************************************************)
(* Strings: sequences of code points.                                      *)
(***************************************************************************)
S_nezha        == <<110, 101, 122, 104, 97>>
S_nodeModules  == <<110, 111, 100, 101, 95, 109, 111, 100, 117, 108, 101, 115>>
S_separator    == <<47>>
S_dot          == <<46>>
S_assetsSlash  == <<47, 97, 115, 115, 101, 116, 115, 47>>
S_js           == <<46, 106, 115>>
S_py           == <<46, 112, 121>>

\* strings.HasPrefix
HasPrefix(s, prefix) ==
    /\ Len(s) >= Len(prefix)
    /\ SubSeq(s, 1, Len(prefix)) = prefix

\* strings.Contains
Contains(s, substr) ==
    \E i \in 0..(Len(s) - Len(substr)) :
        SubSeq(s, i + 1, i + Len(substr)) = substr

\* Lexical (bytewise) order of two strings, the order of readDirNames.
RECURSIVE StrLess(_, _)
StrLess(a, b) ==
    IF a = <<>> THEN b # <<>>
    ELSE IF b = <<>> THEN FALSE
    ELSE IF Head(a) # Head(b) THEN Head(a) < Head(b)
    ELSE StrLess(Tail(a), Tail(b))

RECURSIVE SortNames(_)
SortNames(S) ==
    IF S = {} THEN <<>>
    ELSE LET m == CHOOSE x \in S : \A y \in S \ {x} : StrLess(x, y)
         IN  <<m>> \o SortNames(S \ {m})

\* filepath.Ext of the final path element: the suffix from its last dot on,
\* the empty string when it has no dot.
Ext(path) ==
    LET name == path[Len(path)]
        dots == {i \in 1..Len(name) : name[i] = 46}
    IN  IF dots = {} THEN <<>>
        ELSE SubSeq(name, CHOOSE i \in dots : \A j \in dots : j <= i, Len(name))

\* filepath.Dir of a cleaned path.
Dir(path) == SubSeq(path, 1, Len(path) - 1)

\* info.Name(): the base name.
Base(path) == path[Len(path)]

(***************************************************************************)
(* The file system.  fs maps every existing path to its entry.  An entry   *)
(* records what the system calls of the program observe:                   *)
(*   lstatErr    whether os.Lstat of the path fails ("no", "yes", or       *)
(*               "maybe": it fails at some visits and not at others);      *)
(*               filepath.Walk hands the error to the callback;            *)
(*   isDir       info.IsDir();                                             *)
(*   names       the sorted names readDirNames returns for a directory;    *)
(*   readDirErr  reading the directory's names fails;                      *)
(*   openErr, statErr   os.Open / file.Stat of a regular file fails;       *)
(*   size        fi.Size();                                                *)
(*   content     what ioutil.ReadAll returns, as code points.              *)
(* The file system does not change during a run.                           *)
(***************************************************************************)
FileEntry(content, size, lstatErr, openErr, statErr) ==
    [isDir |-> FALSE, names |-> <<>>, readDirErr |-> FALSE,
     lstatErr |-> lstatErr, openErr |-> openErr, statErr |-> statErr,
     size |-> size, content |-> content]

DirEntry(names, readDirErr) ==
    [isDir |-> TRUE, names |-> names, readDirErr |-> readDirErr,
     lstatErr |-> "no", openErr |-> FALSE, statErr |-> FALSE,
     size |-> 0, content |-> <<>>]

\* x.js, content "nezha": the flagged file a chain level may hold.
ChainFile == [name |-> <<120, 46, 106, 115>>,
              entry |-> FileEntry(S_nezha, 5, "no", FALSE, FALSE)]

\* The other files a tenant tree may hold (at most one of them).
ExtraFiles ==
    { \* y.py, a Han character before "nezha"
      [name |-> <<121, 46, 112, 121>>,
       entry |-> FileEntry(<<20320>> \o S_nezha, 8, "no", FALSE, FALSE)],
      \* h.py, two Han characters
      [name |-> <<104, 46, 112, 121>>,
       entry |-> FileEntry(<<20320, 22909>>, 6, "no", FALSE, FALSE)],
      \* c.js, "import os": no rule matches
      [name |-> <<99, 46, 106, 115>>,
       entry |-> FileEntry(<<105, 109, 112, 111, 114, 116, 32, 111, 115>>, 9,
                           "no", FALSE, FALSE)],
      \* big.js, one byte over the cap, content holds "nezha"
      [name |-> <<98, 105, 103, 46, 106, 115>>,
       entry |-> FileEntry(S_nezha, maxFileSize + 1, "no", FALSE, FALSE)],
      \* max.js, exactly at the cap, content holds "nezha"
      [name |-> <<109, 97, 120, 46, 106, 115>>,
       entry |-> FileEntry(S_nezha, maxFileSize, "no", FALSE, FALSE)],
      \* n.js, cannot be opened
      [name |-> <<110, 46, 106, 115>>,
       entry |-> FileEntry(S_nezha, 5, "no", TRUE, FALSE)],
      \* s.py, cannot be statted after opening
      [name |-> <<115, 46, 112, 121>>,
       entry |-> FileEntry(S_nezha, 5, "no", FALSE, TRUE)],
      \* r.txt, content "nezha", an extension that is not inspected
      [name |-> <<114, 46, 116, 120, 116>>,
       entry |-> FileEntry(S_nezha, 5, "no", FALSE, FALSE)],
      \* mk, no extension
      [name |-> <<109, 107>>,
       entry |-> FileEntry(<<97, 108, 108, 58>>, 4, "no", FALSE, FALSE)],
      \* z.js, an entry whose lstat fails
      [name |-> <<122, 46, 106, 115>>,
       entry |-> FileEntry(<<>>, 0, "yes", FALSE, FALSE)],
      \* w.js, an entry whose lstat fails at some visits only
      [name |-> <<119, 46, 106, 115>>,
       entry |-> FileEntry(S_nezha, 5, "maybe", FALSE, FALSE)] }

\* The names of the directory a tenant tree may hold besides its chain:
\* node_modules, .git, assets, plugins, ?x.
SpecialNames ==
    { S_nodeModules,
      <<46, 103, 105, 116>>,
      <<97, 115, 115, 101, 116, 115>>,
      <<112, 108, 117, 103, 105, 110, 115>>,
      <<63, 120>> }

TenantOne == <<116, 49>>
TenantTwo == <<116, 50>>
NotesFile == <<110, 111, 116, 101, 115>>

NoExtra == [type |-> "none"]

\* What a tenant tree may hold besides its chain files: one extra file in
\* the directory of a level, one directory with a special name there, itself
\* holding x.js, or one unreadable directory.
Extras(n) ==
    {NoExtra}
    \cup {[type |-> "file", level |-> i, file |-> f] :
              i \in 0..n, f \in ExtraFiles}
    \cup {[type |-> "dir", level |-> i, name |-> s] :
              i \in 0..n, s \in SpecialNames}
    \cup {[type |-> "unreadable", level |-> i] : i \in 0..n}

\* The shapes of the first tenant's tree: a chain of n nested directories
\* below the tenant root, x.js in the chain directories of the levels in
\* chain, and one extra.
TreeShapes ==
    {[n |-> n, chain |-> c, extra |-> e] :
        n \in 0..MaxLevels, c \in SUBSET (0..MaxLevels),
        e \in Extras(MaxExtraLevels)}

WellFormed(t) ==
    /\ t.chain \subseteq 0..t.n
    /\ Cardinality(t.chain) <= MaxChainFiles
    /\ t.extra \in Extras(t.n)
    /\ t.extra # NoExtra => t.n <= MaxExtraLevels

\* The name of the chain directory at a level (level 0 is the tenant root):
\* t1, a, b, c, ...
DirName(t, i) == IF i = 0 THEN TenantOne ELSE <<96 + i>>

DirPath(t, i) == [j \in 1..(i + 1) |-> DirName(t, j - 1)]

FilesAt(t, i) ==
    (IF i \in t.chain THEN {ChainFile} ELSE {})
    \cup (IF t.extra.type = "file" /\ t.extra.level = i
          THEN {t.extra.file} ELSE {})

SpecialDirsAt(t, i) ==
    IF t.extra.type = "dir" /\ t.extra.level = i THEN {t.extra.name} ELSE {}

ChildNames(t, i) ==
    {f.name : f \in FilesAt(t, i)}
    \cup SpecialDirsAt(t, i)
    \cup (IF i < t.n THEN {DirName(t, i + 1)} ELSE {})

\* The entries of the file system, as <<path, entry>> pairs: the first
\* tenant's tree, a second tenant t2 holding x.js, and a regular file notes.
TreeEntries(t) ==
    {<<DirPath(t, i),
       DirEntry(SortNames(ChildNames(t, i)),
                t.extra.type = "unreadable" /\ t.extra.level = i)>> :
        i \in 0..t.n}
    \cup UNION {{<<DirPath(t, i) \o <<f.name>>, f.entry>> : f \in FilesAt(t, i)} :
                   i \in 0..t.n}
    \cup UNION {{<<DirPath(t, i) \o <<s>>, DirEntry(<<ChainFile.name>>, FALSE)>> :
                      s \in SpecialDirsAt(t, i)} : i \in 0..t.n}
    \cup UNION {{<<DirPath(t, i) \o <<s, ChainFile.name>>, ChainFile.entry>> :
                      s \in SpecialDirsAt(t, i)} : i \in 0..t.n}
    \cup {<<<<TenantTwo>>, DirEntry(<<ChainFile.name>>, FALSE)>>,
          <<<<TenantTwo, ChainFile.name>>, ChainFile.entry>>,
          <<<<NotesFile>>, FileEntry(<<>>, 0, "no", FALSE, FALSE)>>}

FileSystem(t) ==
    LET E == TreeEntries(t)
    IN  [p \in {e[1] : e \in E} |-> (CHOOSE e \in E : e[1] = p)[2]]

FileSystems == {FileSystem(t) : t \in {s \in TreeShapes : WellFormed(s)}}

\* ioutil.ReadDir(volumesDir): the entries of the volumes directory, sorted
\* by name.
VolumeListing ==
    LET top == SortNames({p[1] : p \in {q \in DOMAIN fs : Len(q) = 1}})
    IN  [k \in 1..Len(top) |-> [name |-> top[k], isDir |-> fs[<<top[k]>>].isDir]]

Init ==
    /\ fs \in FileSystems
    /\ volumes = <<>>
    /\ mainPc = "start"
    /\ volIdx = 1
    /\ stack = <<>>
    /\ ret = [languagePercentages |-> EmptyMap, fileFlags |-> EmptyMap,
              folderFlags |-> {}]
    /\ flaggedFolders = {}
    /\ out = <<>>

(***************************************************************************)
(* readFileWithLimit, checkFlags, containsChinese.                         *)
(***************************************************************************)
\* os.Open, file.Stat, the size check, ioutil.ReadAll.
readFileWithLimit(path, limit) ==
    LET e == fs[path]
    IN  IF e.openErr THEN [err |-> TRUE, content |-> <<>>]
        ELSE IF e.statErr THEN [err |-> TRUE, content |-> <<>>]
        ELSE IF e.size > limit THEN [err |-> TRUE, content |-> <<>>]
        ELSE [err |-> FALSE, content |-> e.content]

\* unicode.Is(unicode.Scripts["Han"], r): the ranges of the Han script table
\* of the standard library (U+2E80..U+2E99, ..., U+4E00..U+9FFF, ...).
IsHan(r) ==
    \/ r \in 11904..11929 \/ r \in 11931..12019 \/ r \in 12032..12245
    \/ r = 12293 \/ r = 12295 \/ r \in 12321..12329 \/ r \in 12344..12347
    \/ r \in 13312..19903 \/ r \in 19968..40959
    \/ r \in 63744..64109 \/ r \in 64112..64217
    \/ r \in 131072..173791 \/ r \in 173824..177977 \/ r \in 177984..178205
    \/ r \in 178208..183969 \/ r \in 183984..191456 \/ r \in 194560..195101
    \/ r \in 196608..201546

containsChinese(s) == \E i \in 1..Len(s) : IsHan(s[i])

\* checkFlags with the two rules in the other order.
checkFlagsHanFirst(content) ==
    (IF containsChinese(content)
     THEN <<"Contains Chinese characters">> ELSE <<>>)
    \o (IF Contains(content, S_nezha) THEN <<"Nezha was detected">> ELSE <<>>)

checkFlags(content) ==
    (IF Contains(content, S_nezha) THEN <<"Nezha was detected">> ELSE <<>>)
    \o (IF containsChinese(content)
        THEN <<"Contains Chinese characters">> ELSE <<>>)

(***************************************************************************)
(* analyzeFiles.  A frame of the call stack holds the locals of one        *)
(* invocation; pc is its position:                                         *)
(*   "entry"   called, before the depth check (line 178);                  *)
(*   "walk"    inside filepath.Walk (lines 187-220), todo the entries      *)
(*             still to visit, in visiting order;                          *)
(*   "merge"   in the loop over fileFlags (lines 233-247), keys the keys   *)
(*             the range has not produced yet;                             *)
(*   "wait"    in the nested call of line 236;                             *)
(*   "return"  at a return statement, the three results in                 *)
(*             languagePercentages, fileFlags, folderFlags.                *)
(* calls counts the nested calls the invocation has made, counted the      *)
(* invocations at or below it that tallied at least one file.              *)
(***************************************************************************)
NewFrame(dirPath, depth) ==
    [dirPath |-> dirPath, depth |-> depth, pc |-> "entry", todo |-> <<>>,
     err |-> FALSE,
     languageCounts |-> EmptyMap, totalFiles |-> 0,
     fileFlags |-> EmptyMap, folderFlags |-> {},
     languagePercentages |-> EmptyMap, keys |-> {},
     calls |-> 0, counted |-> 0]

Top == stack[Len(stack)]

SetTop(f) == [stack EXCEPT ![Len(stack)] = f]

\* Lines 178-180: return nil, nil, nil.
NilResult(f) ==
    [f EXCEPT !.pc = "return",
              !.languagePercentages = EmptyMap,
              !.fileFlags = EmptyMap,
              !.folderFlags = {}]

\* Lines 193-194: the test that prunes a directory.
IsExcludedDir(name) ==
    \/ name = S_nodeModules
    \/ HasPrefix(name, S_nodeModules \o S_separator)
    \/ HasPrefix(name, S_dot)
    \/ HasPrefix(name, S_assetsSlash)

\* Lines 215-216.
Tally(f, ext) ==
    [f EXCEPT !.languageCounts =
                  Put(@, ext, IF ext \in DOMAIN @ THEN @[ext] + 1 ELSE 1),
              !.totalFiles = @ + 1]

\* Lines 209-212.
RecordFlags(f, path, flags) ==
    IF Len(flags) > 0
    THEN [f EXCEPT !.fileFlags = Put(@, path, flags)]
    ELSE f

\* The callback of filepath.Walk, lines 187-220.  rc is what it returns
\* ("nil", "SkipDir" or "err"), frame the invocation's locals after it, log
\* what it printed.
walkFn(f, path, err) ==
    IF err THEN [rc |-> "err", frame |-> f, log |-> <<>>]
    ELSE IF fs[path].isDir
    THEN IF IsExcludedDir(Base(path))
         THEN [rc |-> "SkipDir",
               frame |-> [f EXCEPT !.folderFlags = @ \cup {path}],
               log |-> <<>>]
         ELSE [rc |-> "nil", frame |-> f, log |-> <<>>]
    ELSE LET ext == Ext(path)
         IN  IF ext = S_js \/ ext = S_py
             THEN LET r == readFileWithLimit(path, maxFileSize)
                  IN  IF r.err
                      THEN [rc |-> "nil", frame |-> f,
                            log |-> <<[kind |-> "readError", path |-> path]>>]
                      ELSE [rc |-> "nil",
                            frame |-> Tally(RecordFlags(f, path,
                                                        checkFlags(r.content)),
                                            ext),
                            log |-> <<>>]
             ELSE [rc |-> "nil", frame |-> Tally(f, ext), log |-> <<>>]

\* The error return handing back what the traversal had gathered.
WalkFailedKeepsPartial(f) ==
    [f EXCEPT !.pc = "return", !.err = TRUE, !.todo = <<>>,
              !.counted = IF f.totalFiles > 0 THEN 1 ELSE 0]

\* Lines 222-225: filepath.Walk returned an error.
WalkFailed(f) ==
    [NilResult(f) EXCEPT !.err = TRUE, !.todo = <<>>,
                         !.counted = IF f.totalFiles > 0 THEN 1 ELSE 0]

\* The percentage computed with integer division.
PercentageIntDiv(count, totalFiles) == (count \div totalFiles) * 100 * Scale

\* Line 229: float64(count) / float64(totalFiles) * 100.0, scaled by Scale.
Percentage(count, totalFiles) == (count * 100 * Scale) \div totalFiles

\* Lines 227-231.
Percentages(languageCounts, totalFiles) ==
    [ext \in DOMAIN languageCounts |->
        Percentage(languageCounts[ext], totalFiles)]

\* The merge replacing a percentage instead of adding to it.
MergePercentagesOverwrite(own, sub) ==
    [ext \in (DOMAIN own) \cup (DOMAIN sub) |->
        IF ext \in DOMAIN sub THEN sub[ext] ELSE own[ext]]

\* Lines 237-239.
MergePercentages(own, sub) ==
    [ext \in (DOMAIN own) \cup (DOMAIN sub) |->
        (IF ext \in DOMAIN own THEN own[ext] ELSE 0)
        + (IF ext \in DOMAIN sub THEN sub[ext] ELSE 0)]

\* The merge appending the returned flags to those already there.
MergeFileFlagsAppend(own, sub) ==
    [p \in (DOMAIN own) \cup (DOMAIN sub) |->
        (IF p \in DOMAIN own THEN own[p] ELSE <<>>)
        \o (IF p \in DOMAIN sub THEN sub[p] ELSE <<>>)]

\* Lines 240-242.
MergeFileFlags(own, sub) ==
    [p \in (DOMAIN own) \cup (DOMAIN sub) |->
        IF p \in DOMAIN sub THEN sub[p] ELSE own[p]]

\* Lines 243-245.
MergeFolderFlags(own, sub) == own \cup sub

\* The nested call made with the caller's own depth.
NestedDepthSame(depth) == depth

\* Line 236: the depth handed to the nested call.
NestedDepth(depth) == depth + 1

\* The outcomes of os.Lstat on a path: TRUE when it fails.
LstatFails(path) ==
    IF fs[path].lstatErr = "yes" THEN {TRUE}
    ELSE IF fs[path].lstatErr = "maybe" THEN {FALSE, TRUE}
    ELSE {FALSE}

\* Lines 177-187: depth <= maxDepth, the locals are made, Walk starts at
\* dirPath.
AnalyzeStart ==
    /\ stack # <<>>
    /\ Top.pc = "entry"
    /\ Top.depth <= maxDepth
    /\ stack' = SetTop([Top EXCEPT !.pc = "walk", !.todo = <<Top.dirPath>>])
    /\ UNCHANGED <<fs, volumes, mainPc, volIdx, ret, flaggedFolders, out>>

\* Lines 178-180: depth > maxDepth.
DepthGuard ==
    /\ stack # <<>>
    /\ Top.pc = "entry"
    /\ Top.depth > maxDepth
    /\ stack' = SetTop(NilResult(Top))
    /\ UNCHANGED <<fs, volumes, mainPc, volIdx, ret, flaggedFolders, out>>

\* One entry of filepath.Walk: lstat (and, for a directory, readDirNames),
\* the callback, and what Walk does with the callback's result: an error
\* ends the walk (lines 222-225 follow), SkipDir or an unreadable directory
\* leaves the directory's entries out, otherwise the entries of a directory
\* are visited next, in the order of their names.
WalkEntry ==
    /\ stack # <<>>
    /\ Top.pc = "walk"
    /\ Top.todo # <<>>
    /\ LET path == Head(Top.todo)
           rest == Tail(Top.todo)
       IN  \E lstatErr \in LstatFails(path) :
             LET isDir == ~lstatErr /\ fs[path].isDir
                 r     == walkFn(Top, path,
                                 lstatErr \/ (isDir /\ fs[path].readDirErr))
                 kids  == [k \in 1..Len(fs[path].names) |->
                              path \o <<fs[path].names[k]>>]
             IN  IF r.rc = "err"
                 THEN /\ stack' = SetTop(WalkFailed(r.frame))
                      /\ out' = out \o r.log
                                \o <<[kind |-> "walkError", dir |-> Top.dirPath]>>
                 ELSE /\ stack' = SetTop([r.frame EXCEPT !.todo =
                                    IF isDir /\ r.rc = "nil"
                                    THEN kids \o rest ELSE rest])
                      /\ out' = out \o r.log
    /\ UNCHANGED <<fs, volumes, mainPc, volIdx, ret, flaggedFolders>>

\* Lines 227-231: Walk returned nil; the percentages; the range of line 233
\* starts over the keys fileFlags holds now.
WalkDone ==
    /\ stack # <<>>
    /\ Top.pc = "walk"
    /\ Top.todo = <<>>
    /\ stack' = SetTop([Top EXCEPT
                    !.pc = "merge",
                    !.languagePercentages =
                        Percentages(Top.languageCounts, Top.totalFiles),
                    !.keys = DOMAIN Top.fileFlags,
                    !.counted = IF Top.totalFiles > 0 THEN 1 ELSE 0])
    /\ UNCHANGED <<fs, volumes, mainPc, volIdx, ret, flaggedFolders, out>>

\* Lines 233-235: the range produces a key (in no fixed order) whose
\* directory is dirPath.
MergeSkip ==
    /\ stack # <<>>
    /\ Top.pc = "merge"
    /\ \E subDir \in Top.keys :
         /\ Dir(subDir) = Top.dirPath
         /\ stack' = SetTop([Top EXCEPT !.keys = @ \ {subDir}])
    /\ UNCHANGED <<fs, volumes, mainPc, volIdx, ret, flaggedFolders, out>>

\* Lines 233-236: the range produces a key whose directory is not dirPath;
\* analyzeFiles(subDirPath, depth+1) is called.
MergeCall ==
    /\ stack # <<>>
    /\ Top.pc = "merge"
    /\ \E subDir \in Top.keys :
         LET subDirPath == Dir(subDir)
         IN  /\ subDirPath # Top.dirPath
             /\ stack' = Append(SetTop([Top EXCEPT !.keys = @ \ {subDir},
                                                   !.pc = "wait",
                                                   !.calls = @ + 1]),
                                NewFrame(subDirPath, NestedDepth(Top.depth)))
    /\ UNCHANGED <<fs, volumes, mainPc, volIdx, ret, flaggedFolders, out>>

\* Lines 236-245: the nested call returns and its results are merged.  A key
\* the merge adds to fileFlags during the range may or may not be produced
\* by it later.
MergeReturn ==
    /\ Len(stack) >= 2
    /\ Top.pc = "return"
    /\ LET sub == Top
           own == stack[Len(stack) - 1]
           new == (DOMAIN sub.fileFlags) \ (DOMAIN own.fileFlags)
       IN  \E later \in SUBSET new :
             stack' = [SubSeq(stack, 1, Len(stack) - 1) EXCEPT
                 ![Len(stack) - 1] = [own EXCEPT
                     !.pc = "merge",
                     !.languagePercentages =
                         MergePercentages(@, sub.languagePercentages),
                     !.fileFlags = MergeFileFlags(@, sub.fileFlags),
                     !.folderFlags = MergeFolderFlags(@, sub.folderFlags),
                     !.keys = @ \cup later,
                     !.counted = @ + sub.counted]]
    /\ UNCHANGED <<fs, volumes, mainPc, volIdx, ret, flaggedFolders, out>>

\* Line 249: the range is over.
MergeDone ==
    /\ stack # <<>>
    /\ Top.pc = "merge"
    /\ Top.keys = {}
    /\ stack' = SetTop([Top EXCEPT !.pc = "return"])
    /\ UNCHANGED <<fs, volumes, mainPc, volIdx, ret, flaggedFolders, out>>

(***************************************************************************)
(* main, lines 151-175, and printFlaggedFoldersSummary, lines 309-316.     *)
(***************************************************************************)
\* The test of the variant without folder flags (line 26).
ShouldReportFilesOnly(fileFlags, folderFlags) ==
    Cardinality(DOMAIN fileFlags) > 0

\* Line 165.
ShouldReport(fileFlags, folderFlags) ==
    Cardinality(DOMAIN fileFlags) > 0 \/ Cardinality(folderFlags) > 0

\* Lines 153-159: ReadDir succeeds.
MainReadDir ==
    /\ mainPc = "start"
    /\ volumes' = VolumeListing
    /\ mainPc' = "loop"
    /\ UNCHANGED <<fs, volIdx, stack, ret, flaggedFolders, out>>

\* Lines 153-157: ReadDir fails; main returns.
MainReadDirError ==
    /\ mainPc = "start"
    /\ mainPc' = "exit"
    /\ out' = Append(out, [kind |-> "volumesError"])
    /\ UNCHANGED <<fs, volumes, volIdx, stack, ret, flaggedFolders>>

\* Lines 161-162: a volume that is not a directory.
MainSkipVolume ==
    /\ mainPc = "loop"
    /\ volIdx <= Len(volumes)
    /\ ~volumes[volIdx].isDir
    /\ volIdx' = volIdx + 1
    /\ UNCHANGED <<fs, volumes, mainPc, stack, ret, flaggedFolders, out>>

\* Lines 162-164: analyzeFiles(volumePath, 1) is called.
MainCall ==
    /\ mainPc = "loop"
    /\ volIdx <= Len(volumes)
    /\ volumes[volIdx].isDir
    /\ stack' = <<NewFrame(<<volumes[volIdx].name>>, 1)>>
    /\ mainPc' = "call"
    /\ UNCHANGED <<fs, volumes, volIdx, ret, flaggedFolders, out>>

\* Line 164: the call returns to main.
MainReturn ==
    /\ mainPc = "call"
    /\ Len(stack) = 1
    /\ Top.pc = "return"
    /\ ret' = [languagePercentages |-> Top.languagePercentages,
               fileFlags |-> Top.fileFlags,
               folderFlags |-> Top.folderFlags]
    /\ stack' = <<>>
    /\ mainPc' = "returned"
    /\ UNCHANGED <<fs, volumes, volIdx, flaggedFolders, out>>

\* Lines 165-170: the report is printed, the folders join flaggedFolders.
MainReport ==
    /\ mainPc = "returned"
    /\ ShouldReport(ret.fileFlags, ret.folderFlags)
    /\ out' = Append(out, [kind |-> "report",
                           dir |-> <<volumes[volIdx].name>>,
                           languagePercentages |-> ret.languagePercentages,
                           fileFlags |-> ret.fileFlags])
    /\ flaggedFolders' = flaggedFolders \cup ret.folderFlags
    /\ volIdx' = volIdx + 1
    /\ mainPc' = "loop"
    /\ UNCHANGED <<fs, volumes, stack, ret>>

\* Line 165: neither map has an entry; nothing is printed.
MainNoReport ==
    /\ mainPc = "returned"
    /\ ~ShouldReport(ret.fileFlags, ret.folderFlags)
    /\ volIdx' = volIdx + 1
    /\ mainPc' = "loop"
    /\ UNCHANGED <<fs, volumes, stack, ret, flaggedFolders, out>>

\* Lines 174 and 309-316: the summary, printed when a folder was flagged.
MainSummary ==
    /\ mainPc = "loop"
    /\ volIdx > Len(volumes)
    /\ out' = IF Cardinality(flaggedFolders) > 0
              THEN Append(out, [kind |-> "summary", folders |-> flaggedFolders])
              ELSE out
    /\ mainPc' = "done"
    /\ UNCHANGED <<fs, volumes, volIdx, stack, ret, flaggedFolders>>

Next ==
    \/ MainReadDir
    \/ MainReadDirError
    \/ MainSkipVolume
    \/ MainCall
    \/ AnalyzeStart
    \/ DepthGuard
    \/ WalkEntry
    \/ WalkDone
    \/ MergeSkip
    \/ MergeCall
    \/ MergeReturn
    \/ MergeDone
    \/ MainReturn
    \/ MainReport
    \/ MainNoReport
    \/ MainSummary

Spec == Init /\ [][Next]_vars

\* The program runs on: no step that can be taken is put off for ever.
FairSpec == Spec /\ WF_vars(Next)

(***************************************************************************)
(* Vocabulary of the properties.                                           *)
(***************************************************************************)
Frames == {stack[i] : i \in 1..Len(stack)}

Printed == {out[i] : i \in 1..Len(out)}

ReportsOf(dir) == {m \in Printed : m.kind = "report" /\ m.dir = dir}

WalkErrorsOf(dir) == {m \in Printed : m.kind = "walkError" /\ m.dir = dir}

\* No system call on any entry of the file system fails.
NoIOErrors ==
    \A p \in DOMAIN fs :
        /\ fs[p].lstatErr = "no"
        /\ ~fs[p].openErr
        /\ ~fs[p].statErr
        /\ ~fs[p].readDirErr

\* The invocation at the top of the stack is about to visit, as a regular
\* file, the path at the head of its todo list.
VisitingFile ==
    /\ stack # <<>>
    /\ Top.pc = "walk"
    /\ Top.todo # <<>>
    /\ fs[Head(Top.todo)].lstatErr = "no"
    /\ ~fs[Head(Top.todo)].isDir

IsSource(path) == Ext(path) = S_js \/ Ext(path) = S_py

\* The directory names the specification lists as excluded: node_modules,
\* plugins, assets, and every name that begins with "." or "?".
ListedAsExcluded(name) ==
    \/ name = S_nodeModules
    \/ name = <<112, 108, 117, 103, 105, 110, 115>>
    \/ name = <<97, 115, 115, 101, 116, 115>>
    \/ HasPrefix(name, S_dot)
    \/ HasPrefix(name, <<63>>)

\* path lies inside a directory that the walk of frame f reaches and whose
\* name is listed as excluded.
InsideListed(f, path) ==
    \E i \in Len(f.dirPath)..(Len(path) - 1) : ListedAsExcluded(path[i])

CountOf(f, ext) ==
    IF ext \in DOMAIN f.languageCounts THEN f.languageCounts[ext] ELSE 0

EmptyResults(f) ==
    /\ DOMAIN f.languagePercentages = {}
    /\ DOMAIN f.fileFlags = {}
    /\ f.folderFlags = {}

(***************************************************************************)
(* C1                                                                      *)
(***************************************************************************)
\* C1: when a walk visits a .js or .py file that is larger than the 10 MiB
\* cap, or that cannot be opened or statted, the file is still tallied
\* (languageCounts[ext] and totalFiles both grow by one) and it does not
\* become a key of fileFlags.
C1_UnreadableSourceIsTallied ==
    [][ (/\ VisitingFile
         /\ IsSource(Head(Top.todo))
         /\ readFileWithLimit(Head(Top.todo), maxFileSize).err)
        => LET path  == Head(Top.todo)
               after == stack'[Len(stack)]
           IN  /\ after.totalFiles = Top.totalFiles + 1
               /\ CountOf(after, Ext(path)) = CountOf(Top, Ext(path)) + 1
               /\ path \notin DOMAIN after.fileFlags ]_vars

(***************************************************************************)
(* C2                                                                      *)
(***************************************************************************)
\* C2: a file inside a directory that the walk reaches and whose name is
\* node_modules, plugins or assets, or begins with "." or "?", is not
\* tallied and not flagged: visiting it leaves languageCounts, totalFiles
\* and fileFlags as they were, in the top-level walk and in nested walks.
C2_ListedDirectoriesContributeNothing ==
    [][ (VisitingFile /\ InsideListed(Top, Head(Top.todo)))
        => LET after == stack'[Len(stack)]
           IN  /\ after.totalFiles = Top.totalFiles
               /\ after.languageCounts = Top.languageCounts
               /\ after.fileFlags = Top.fileFlags ]_vars

(***************************************************************************)
(* C3                                                                      *)
(***************************************************************************)
\* The percentages of an invocation as the traversal left them: the range
\* of line 233 has started and no nested call has been made.
BeforeAnyMerge(f) == f.pc = "merge" /\ f.calls = 0

\* C3: in every invocation the per-extension counts sum to totalFiles;
\* before any merge, each percentage is exactly count / totalFiles * 100,
\* the percentages sum to 100 when totalFiles > 0, and when totalFiles = 0
\* there is no extension to divide for and the percentages are empty.
C3_PercentagesSumTo100 ==
    \A f \in Frames :
        /\ SumMap(f.languageCounts) = f.totalFiles
        /\ BeforeAnyMerge(f) =>
             /\ DOMAIN f.languagePercentages = DOMAIN f.languageCounts
             /\ \A ext \in DOMAIN f.languagePercentages :
                    f.languagePercentages[ext] * f.totalFiles
                        = f.languageCounts[ext] * 100 * Scale
             /\ f.totalFiles > 0 => SumMap(f.languagePercentages) = 100 * Scale
             /\ f.totalFiles = 0 => /\ DOMAIN f.languageCounts = {}
                                    /\ DOMAIN f.languagePercentages = {}

\* Three files of two extensions have been tallied: 1/3 and 2/3.
C3_Witness ==
    \E f \in Frames :
        /\ BeforeAnyMerge(f)
        /\ f.totalFiles = 3
        /\ Cardinality(DOMAIN f.languagePercentages) = 2

(***************************************************************************)
(* C4                                                                      *)
(***************************************************************************)
\* Directory levels of a path below its tenant root.
LevelsBelowTenant(path) == Len(path) - 1

\* C4: an invocation with depth > 3 does not traverse and returns empty
\* results, at most 3 invocations that traverse are nested, and an
\* invocation rooted 4 or more directory levels below the tenant root does
\* not traverse and returns empty results.
C4_DeepRootsReturnEmpty ==
    /\ \A f \in Frames :
          f.depth > maxDepth => f.pc \in {"entry", "return"} /\ EmptyResults(f)
    /\ Cardinality({i \in 1..Len(stack) : stack[i].depth <= maxDepth}) <= 3
    /\ \A f \in Frames :
          LevelsBelowTenant(f.dirPath) >= 4
              => f.pc \in {"entry", "return"} /\ EmptyResults(f)

(***************************************************************************)
(* C5                                                                      *)
(***************************************************************************)
\* Scenario B: the first tenant holds node_modules/x.js and nothing else.
ScenarioBShape ==
    [n |-> 0, chain |-> {},
     extra |-> [type |-> "dir", level |-> 0, name |-> S_nodeModules]]

ScenarioB == fs = FileSystem(ScenarioBShape)

ScenarioBFile == <<TenantOne, S_nodeModules, ChainFile.name>>

\* node_modules/x.js is not visited (so not read), not tallied, not flagged.
ScenarioBFileUntouched ==
    \A f \in Frames :
        f.dirPath[1] = TenantOne =>
            /\ \A k \in 1..Len(f.todo) : f.todo[k] # ScenarioBFile
            /\ f.totalFiles = 0
            /\ DOMAIN f.fileFlags = {}

\* C5 as stated: in scenario B the file is untouched and main prints no
\* report for the tenant.
C5_ScenarioBNoReport ==
    ScenarioB => /\ ScenarioBFileUntouched
                 /\ ReportsOf(<<TenantOne>>) = {}

\* C5 as amended: in scenario B the file is untouched, yet main does print
\* a report for the tenant, with no percentages and no file flags, because
\* folderFlags holds the node_modules directory; the directory joins the
\* flagged-folder summary.
C5_ScenarioBEmptyReport ==
    ScenarioB =>
        /\ ScenarioBFileUntouched
        /\ \A m \in ReportsOf(<<TenantOne>>) :
              /\ DOMAIN m.languagePercentages = {}
              /\ DOMAIN m.fileFlags = {}
        /\ mainPc = "done" =>
              /\ ReportsOf(<<TenantOne>>) # {}
              /\ <<TenantOne, S_nodeModules>> \in flaggedFolders

C5_Witness ==
    /\ ScenarioB
    /\ mainPc = "done"
    /\ ReportsOf(<<TenantOne>>) # {}

(***************************************************************************)
(* C6                                                                      *)
(***************************************************************************)
\* C6: an invocation whose traversal ended with an error returns empty
\* percentages, fileFlags and folderFlags; a tenant whose top-level walk
\* ended so gets no report and adds no folder to flaggedFolders, and main
\* goes on: the run ends with the report of the tenant after it.
C6_WalkErrorDiscardsAll ==
    /\ \A f \in Frames : f.err => f.pc = "return" /\ EmptyResults(f)
    /\ \A k \in 1..Len(volumes) :
          WalkErrorsOf(<<volumes[k].name>>) # {} =>
              /\ ReportsOf(<<volumes[k].name>>) = {}
              /\ \A d \in flaggedFolders : d[1] # volumes[k].name
              /\ mainPc = "done" => ReportsOf(<<TenantTwo>>) # {}

\* The top-level walk of a tenant has ended with an error after it had
\* tallied a file.
C6_Witness ==
    \E f \in Frames :
        /\ f.err
        /\ f.depth = 1
        /\ f.totalFiles > 0
        /\ f.dirPath # <<TenantTwo>>

(***************************************************************************)
(* C7                                                                      *)
(***************************************************************************)
FlagLists ==
    { <<"Nezha was detected">>,
      <<"Contains Chinese characters">>,
      <<"Nezha was detected", "Contains Chinese characters">> }

InSeq(x, q) == \E i \in 1..Len(q) : q[i] = x

\* Every value of the map is a non-empty list in the fixed order, holding
\* the flag of exactly the rules the file's content matches.
GoodFlags(fileFlags) ==
    \A p \in DOMAIN fileFlags :
        /\ fileFlags[p] \in FlagLists
        /\ InSeq("Nezha was detected", fileFlags[p])
              <=> Contains(fs[p].content, S_nezha)
        /\ InSeq("Contains Chinese characters", fileFlags[p])
              <=> \E i \in 1..Len(fs[p].content) :
                      fs[p].content[i] \in {20320, 22909}

\* C7: "Nezha was detected" precedes "Contains Chinese characters" in every
\* flag list, and every value stored in fileFlags (in an invocation, in what
\* main received, in a printed report) is a non-empty list.
C7_FlagOrderAndNonEmpty ==
    /\ \A f \in Frames : GoodFlags(f.fileFlags)
    /\ GoodFlags(ret.fileFlags)
    /\ \A m \in Printed : m.kind = "report" => GoodFlags(m.fileFlags)

\* A file whose content has a Han character before "nezha" carries both
\* flags, after a merge.
C7_Witness ==
    \E f \in Frames :
        /\ f.calls > 0
        /\ f.pc = "return"
        /\ \E p \in DOMAIN f.fileFlags :
              /\ fs[p].content[1] = 20320
              /\ Len(f.fileFlags[p]) = 2

(***************************************************************************)
(* C8                                                                      *)
(***************************************************************************)
\* C8: an invocation with depth <= 3 makes one nested call for every key of
\* fileFlags whose directory is not its root (one per file, not one per
\* directory); with no I/O errors, the percentages it returns sum to 100
\* times the number of invocations at or below it that tallied a file.
C8_MergeAddsPercentages ==
    \A f \in Frames :
        (f.pc = "return" /\ f.depth <= maxDepth) =>
            /\ f.calls = Cardinality({p \in DOMAIN f.fileFlags :
                                          Dir(p) # f.dirPath})
            /\ NoIOErrors =>
                  SumMap(f.languagePercentages) = 100 * Scale * f.counted

\* Two flagged files of one subdirectory: two nested calls, three counting
\* invocations.
C8_Witness ==
    /\ NoIOErrors
    /\ \E f \in Frames :
          /\ f.pc = "return"
          /\ f.depth = 1
          /\ f.counted = 3
          /\ \E p, q \in DOMAIN f.fileFlags :
                p # q /\ Dir(p) = Dir(q) /\ Dir(p) # f.dirPath

(***************************************************************************)
(* C9                                                                      *)
(***************************************************************************)
\* C9: with no I/O errors, once an invocation's traversal is over its
\* fileFlags and folderFlags never change: what a nested call returns is
\* already there, with equal values.
C9_MergeKeepsFlags ==
    [][ NoIOErrors =>
          \A i \in 1..Len(stack) :
              (stack[i].pc \in {"merge", "wait"} /\ i <= Len(stack')) =>
                  /\ stack'[i].fileFlags = stack[i].fileFlags
                  /\ stack'[i].folderFlags = stack[i].folderFlags ]_vars

\* A nested call is returning a flagged file and an excluded folder.
C9_Witness ==
    /\ NoIOErrors
    /\ Len(stack) >= 2
    /\ Top.pc = "return"
    /\ DOMAIN Top.fileFlags # {}
    /\ Top.folderFlags # {}

(***************************************************************************)
(* C10                                                                     *)
(***************************************************************************)
IsStrictSubdir(sub, dir) ==
    /\ Len(sub) > Len(dir)
    /\ SubSeq(sub, 1, Len(dir)) = dir

StrictNesting ==
    /\ Len(stack) <= maxDepth + 1
    /\ \A i \in 2..Len(stack) :
          /\ stack[i].depth = stack[i - 1].depth + 1
          /\ IsStrictSubdir(stack[i].dirPath, stack[i - 1].dirPath)
    /\ \A f \in Frames : f.depth > maxDepth => f.pc \in {"entry", "return"}

\* C10: every nested call is made with depth+1 on a strict subdirectory of
\* the caller's root and returns at once when depth > 3; and once the
\* volumes are listed, every call of analyzeFiles returns to main and the
\* run reaches the summary.
C10_Terminates ==
    /\ []StrictNesting
    /\ (mainPc = "loop") ~> (mainPc = "done")

\* The run has ended after a tenant whose analysis took at least four
\* invocations.
C10_Witness ==
    /\ mainPc = "done"
    /\ \E m \in ReportsOf(<<TenantOne>>) :
          SumMap(m.languagePercentages) >= 400 * Scale

====
